---------------------------- MODULE Spec2Model ----------------------------
(***************************************************************************)
(* Model of pandapower/build_branch.py: the branch assembler               *)
(* (_build_branch_ppc), the two- and three-winding transformer models, the *)
(* incremental update (_update_trafo_trafo3w_ppc) and the topology passes  *)
(* (_switch_branches, _branches_with_oos_buses).                           *)
(*                                                                         *)
(* Numbers.  A float is modelled as an exact rational <<n, d>> in lowest   *)
(* terms with d > 0; <<0, 0>> is NaN.  Columns whose value carries an      *)
(* irrational factor (pi, sqrt(3), a square root of the transformer        *)
(* model) are kept as a tagged value [t |-> tag, a |-> arguments], so that *)
(* two such values are equal exactly when the code computes them from the  *)
(* same intermediates.  numpy arrays and pandas tables are sequences; row  *)
(* i of an array (0-based, as in the code) is element i + 1.               *)
(***************************************************************************)
EXTENDS Integers, Sequences, FiniteSets, TLC

VARIABLES net, args, ppc_branch, ppc_bus, trafo3w_df, pc, op, err

vars == <<net, args, ppc_branch, ppc_bus, trafo3w_df, pc, op, err>>

-----------------------------------------------------------------------------
(* Bounds of the model *)

MaxLine == 2
MaxTrafo == 1
MaxTrafo3w == 1
MaxImpedance == 1
MaxXward == 1
MaxSwitch == 3
MaxTapPos == 1

-----------------------------------------------------------------------------
(* Exact rational arithmetic standing for float arithmetic *)

Abs(i) == IF i < 0 THEN -i ELSE i

RECURSIVE GCD(_, _)
GCD(a, b) == IF b = 0 THEN a ELSE GCD(b, a % b)

NaN == <<0, 0>>

Q(n, d) ==
    IF d = 0 THEN NaN
    ELSE LET g == GCD(Abs(n), Abs(d))
             s == IF d < 0 THEN -1 ELSE 1
         IN  <<(s * n) \div g, (s * d) \div g>>

RInt(i) == <<i, 1>>
IsFinite(q) == q[2] # 0
(* products and sums are reduced before they are formed *)
RMul(a, b) ==
    IF IsFinite(a) /\ IsFinite(b)
    THEN LET g1 == GCD(Abs(a[1]), b[2])
             g2 == GCD(Abs(b[1]), a[2])
         IN  Q((a[1] \div g1) * (b[1] \div g2), (a[2] \div g2) * (b[2] \div g1))
    ELSE NaN
RDiv(a, b) ==
    IF IsFinite(a) /\ IsFinite(b)
    THEN IF b[1] = 0 THEN NaN
         ELSE RMul(a, IF b[1] < 0 THEN <<-b[2], -b[1]>> ELSE <<b[2], b[1]>>)
    ELSE NaN
RAdd(a, b) ==
    IF IsFinite(a) /\ IsFinite(b)
    THEN LET g == GCD(a[2], b[2])
         IN  Q(a[1] * (b[2] \div g) + b[1] * (a[2] \div g), (a[2] \div g) * b[2])
    ELSE NaN
RSub(a, b) == RAdd(a, <<-b[1], b[2]>>)
RSquare(a) == RMul(a, a)
RLess(a, b) ==
    /\ IsFinite(a) /\ IsFinite(b)
    /\ LET g == GCD(a[2], b[2]) IN a[1] * (b[2] \div g) < b[1] * (a[2] \div g)
RMin(a, b) == IF RLess(b, a) THEN b ELSE a
RSign(a) == IF ~IsFinite(a) THEN NaN ELSE IF a[1] > 0 THEN RInt(1)
            ELSE IF a[1] < 0 THEN RInt(-1) ELSE RInt(0)

(* a plain number in a column that may also hold tagged values *)
VQ(q) == [t |-> "q", a |-> q]
(* q times an irrational unit; zero and NaN stay plain *)
VUnit(tag, q) == IF q[1] = 0 THEN VQ(q) ELSE [t |-> tag, a |-> q]

RECURSIVE Flatten(_)
Flatten(qs) == IF qs = <<>> THEN <<>> ELSE Head(qs) \o Flatten(Tail(qs))

Range(s) == {s[i] : i \in DOMAIN s}
Row(arr, i) == arr[i + 1]

-----------------------------------------------------------------------------
(* Column indices of pypower.idx_brch / idx_bus, as field names.  Columns  *)
(* 17 and 18 of the branch matrix hold the impedance deltas.               *)

LineCols == <<"F_BUS", "T_BUS", "BR_R", "BR_X", "BR_B", "BR_STATUS", "RATE_A">>
TrafoCols == <<"F_BUS", "T_BUS", "BR_R", "BR_X", "BR_B", "TAP", "SHIFT", "BR_STATUS", "RATE_A">>
Trafo3wUpdateCols == <<"F_BUS", "T_BUS", "BR_R", "BR_X", "BR_B", "TAP", "SHIFT", "BR_STATUS">>
ImpedanceCols == <<"F_BUS", "T_BUS", "BR_R", "BR_X", "c17", "c18", "BR_STATUS">>
XwardCols == <<"F_BUS", "T_BUS", "BR_R", "BR_X", "BR_STATUS">>

(* np.array([0, 0, 0, 0, 0, 250, 250, 250, 1, 0, 1, -360, 360]) in columns 0..12 *)
DefaultBranchRow ==
    [F_BUS |-> 0, T_BUS |-> 0, BR_R |-> VQ(RInt(0)), BR_X |-> VQ(RInt(0)),
     BR_B |-> VQ(RInt(0)), RATE_A |-> VQ(RInt(250)), RATE_B |-> 250, RATE_C |-> 250,
     TAP |-> RInt(1), SHIFT |-> RInt(0), BR_STATUS |-> 1, ANGMIN |-> -360,
     ANGMAX |-> 360, c17 |-> VQ(RInt(0)), c18 |-> VQ(RInt(0))]

(* np.array([0, 1, 0, 0, 0, 0, 1, 1, 0, 0, 1, 1.1, 0.9]): the row of a new bus *)
DefaultBusRow ==
    [BUS_I |-> 0, BUS_TYPE |-> 1, VM |-> RInt(1), VA |-> RInt(0), BASE_KV |-> RInt(0),
     VMAX |-> Q(11, 10), VMIN |-> Q(9, 10)]

BoolInt(b) == IF b THEN 1 ELSE 0

(* pandapower.auxiliary.get_values(source, index, lookup) = source[lookup[index]], *)
(* here for the BASE_KV column of the bus array                                   *)
GetBaseKv(bus, index, lookup) == Row(bus, lookup[index]).BASE_KV

(* ppc["branch"][lo:hi, cols] = t : the rows lo..hi-1 get the columns cols from *)
(* the rows of t.  numpy refuses (ValueError: shape mismatch) when t has more    *)
(* columns than cols names.                                                      *)
SetRowsFits(cols, t) == \A k \in DOMAIN t : Len(t[k]) = Len(cols)

SetRows(branch, lo, cols, t) ==
    [i \in DOMAIN branch |->
        IF i - 1 >= lo /\ i - 1 < lo + Len(t)
        THEN [f \in DOMAIN branch[i] |->
                IF \E k \in DOMAIN cols : cols[k] = f
                THEN t[i - lo][CHOOSE k \in DOMAIN cols : cols[k] = f]
                ELSE branch[i][f]]
        ELSE branch[i]]

-----------------------------------------------------------------------------
(* Per-unit conversion of lines, impedances and extended wards *)

BaseR(base_kv, sn_kva) == RMul(RDiv(RSquare(base_kv), sn_kva), RInt(1000))

CalcLineRow(n, bus, copy_constraints_to_ppc, l) ==
    LET fb == n.bus_lookup[l.from_bus]
        tb == n.bus_lookup[l.to_bus]
        baseR == BaseR(Row(bus, fb).BASE_KV, n.sn_kva)
        par == RInt(l.parallel)
        vr == n.bus[l.from_bus].vn_kv
    IN  <<fb, tb,
          VQ(RDiv(RDiv(RMul(l.r_ohm_per_km, l.length_km), baseR), par)),
          VQ(RDiv(RDiv(RMul(l.x_ohm_per_km, l.length_km), baseR), par)),
          VUnit("q*pi*1e-9",
                RMul(RMul(RMul(RMul(RInt(2 * n.f_hz), l.c_nf_per_km), baseR),
                          l.length_km), par)),
          BoolInt(l.in_service),
          IF copy_constraints_to_ppc
          THEN VUnit("q*sqrt3",
                     RMul(RMul(RMul(RMul(RDiv(l.max_loading_percent, RInt(100)),
                                         l.max_i_ka), l.df), par), vr))
          ELSE VQ(RInt(0))>>

CalcLineParameter(n, bus, copy_constraints_to_ppc) ==
    [p \in DOMAIN n.line |-> CalcLineRow(n, bus, copy_constraints_to_ppc, n.line[p])]

CalcImpedanceParameter(n) ==
    [p \in DOMAIN n.impedance |->
        LET z == n.impedance[p]
            scale(v) == RMul(RDiv(v, z.sn_kva), n.sn_kva)
        IN  <<n.bus_lookup[z.from_bus], n.bus_lookup[z.to_bus],
              VQ(scale(z.rft_pu)), VQ(scale(z.xft_pu)),
              VQ(scale(RSub(z.rtf_pu, z.rft_pu))), VQ(scale(RSub(z.xtf_pu, z.xft_pu))),
              BoolInt(z.in_service)>>]

(* an extended-ward model that takes the base voltage at the auxiliary bus *)
XwardBaseBusAuxiliary(w) == w.ad_bus

(* the bus whose base voltage gives the per-unit base of an extended ward *)
XwardBaseBus(w) == w.bus

CalcXwardParameter(n, bus) ==
    [p \in DOMAIN n.xward |->
        LET w == n.xward[p]
            baseR == BaseR(GetBaseKv(bus, XwardBaseBus(w), n.bus_lookup), n.sn_kva)
        IN  <<n.bus_lookup[w.bus], n.bus_lookup[w.ad_bus],
              VQ(RDiv(w.r_ohm, baseR)), VQ(RDiv(w.x_ohm, baseR)),
              BoolInt(w.xw_is)>>]

-----------------------------------------------------------------------------
(* Two-winding transformer model.  A trafo_df is a sequence of rows; dfcols *)
(* tells whether the table has a tp_st_degree column (net.trafo has one,     *)
(* the table derived from trafo3w has none).                                 *)

TapAdjusts(tr, side) == IsFinite(tr.tp_pos) /\ tr.tp_side = side

TapShiftBase(tr, calculate_voltage_angles) ==
    IF calculate_voltage_angles THEN tr.shift_degree ELSE RInt(0)

(* a tap model that counts the steps from position 0 instead of tp_mid *)
TapDiffFromZero(tr) == tr.tp_pos

(* tp_diff = tp_pos - tp_mid *)
TapDiff(tr) == RSub(tr.tp_pos, tr.tp_mid)

(* _calc_tap_from_dataframe, for one row: <<vnh, vnl, trafo_shift>> *)
CalcTapFromDataframe(tr, has_st_degree, calculate_voltage_angles) ==
    LET tp_diff == TapDiff(tr)
        factor == RAdd(RInt(1), RDiv(RMul(tp_diff, tr.tp_st_percent), RInt(100)))
        tap_os == TapAdjusts(tr, "hv")
        tap_us == TapAdjusts(tr, "lv")
        steps == calculate_voltage_angles /\ has_st_degree /\ IsFinite(tr.tp_st_degree)
        shift0 == TapShiftBase(tr, calculate_voltage_angles)
        vnh == IF tap_os THEN RMul(tr.vn_hv_kv, factor) ELSE tr.vn_hv_kv
        vnl == IF tap_us THEN RMul(tr.vn_lv_kv, factor) ELSE tr.vn_lv_kv
        shift1 == IF tap_os /\ steps
                  THEN RAdd(shift0, RMul(tp_diff, tr.tp_st_degree)) ELSE shift0
        shift2 == IF tap_us /\ steps
                  THEN RSub(shift1, RMul(tp_diff, tr.tp_st_degree)) ELSE shift1
    IN  <<vnh, vnl, shift2>>

(* _calc_r_x_from_dataframe: <<r_sc, z_sc>>; x_sc = sqrt(z_sc^2 - r_sc^2) is *)
(* left to the tagged value                                                   *)
CalcRXFromDataframe(tr, vn_lv, vn_trafo_lv, sn_kva) ==
    LET tap_lv == RDiv(RMul(RSquare(RDiv(vn_trafo_lv, vn_lv)), sn_kva), RInt(1000))
        sc(pct) == RMul(RMul(RDiv(RDiv(pct, RInt(100)), tr.sn_kva), RInt(1000)), tap_lv)
    IN  <<sc(tr.vscr_percent), sc(tr.vsc_percent)>>

(* _calc_y_from_dataframe: <<b_real, radicand of b_img (clamped at 0),       *)
(*  baseR / vn_lv_kv^2, sign(i0), divisor applied when the table has an lv   *)
(*  tap side>>, so that y = (-b_real*j - sqrt(radicand)*scale*sign) / divisor *)
CalcYFromDataframe(tr, any_lv, vn_lv, vn_trafo_lv, sn_kva) ==
    LET baseR == BaseR(vn_lv, sn_kva)
        vnl_squared == RSquare(tr.vn_lv_kv)
        b_real == RMul(RDiv(tr.pfe_kw, RMul(RInt(1000), vnl_squared)), baseR)
        rad == RSub(RSquare(RDiv(RMul(RDiv(tr.i0_percent, RInt(100)), tr.sn_kva), RInt(1000))),
                    RSquare(RDiv(tr.pfe_kw, RInt(1000))))
        clamped == IF RLess(rad, RInt(0)) THEN RInt(0) ELSE rad
        divisor == IF any_lv
                   THEN RSquare(RDiv(RDiv(RMul(vn_trafo_lv, vn_lv), tr.vn_lv_kv), vn_lv))
                   ELSE RInt(1)
    IN  <<b_real, clamped, RDiv(baseR, vnl_squared), RSign(tr.i0_percent), divisor>>

KnownTrafoModel(trafo_model) == trafo_model \in {"pi", "t"}

(* y != 0, the rows _wye_delta transforms *)
YIsZero(y) == y[1][1] = 0 /\ (y[2][1] = 0 \/ y[4][1] = 0)

(* the three values r, x, y of one row for a known model, divided and       *)
(* multiplied by parallel.  With "pi" r is the plain number r_sc / parallel; *)
(* x, y and every value of the "t" model (_wye_delta) carry square roots or  *)
(* complex arithmetic and stay tagged with the intermediates they come from. *)
TaggedRXY(rz, y, par, wye, yzero) ==
    LET a == Flatten(rz \o y \o <<par>>)
    IN  <<IF wye THEN [t |-> "wye_delta.r", a |-> a] ELSE VQ(RDiv(rz[1], par)),
          IF wye THEN [t |-> "wye_delta.x", a |-> a]
          ELSE [t |-> "sqrt(z^2-r^2)/parallel", a |-> Flatten(rz \o <<par>>)],
          IF yzero THEN VQ(RInt(0))
          ELSE IF wye THEN [t |-> "wye_delta.y", a |-> a]
          ELSE [t |-> "y*parallel", a |-> Flatten(y \o <<par>>)]>>

RXYOf(rz, y, par, trafo_model) ==
    TaggedRXY(rz, y, par, trafo_model = "t" /\ ~YIsZero(y), YIsZero(y))

(* _calc_r_x_y_from_dataframe followed by the scaling with parallel *)
CalcRXY(tr, any_lv, vn_lv, vn_trafo_lv, trafo_model, sn_kva) ==
    RXYOf(CalcRXFromDataframe(tr, vn_lv, vn_trafo_lv, sn_kva),
          CalcYFromDataframe(tr, any_lv, vn_lv, vn_trafo_lv, sn_kva),
          RInt(tr.parallel), trafo_model)

(* _calc_nominal_ratio_from_dataframe *)
CalcNominalRatio(n, bus, tr, vn_hv_kv, vn_lv_kv) ==
    LET tap_rat == RDiv(vn_hv_kv, vn_lv_kv)
        nom_rat == RDiv(GetBaseKv(bus, tr.hv_bus, n.bus_lookup),
                        GetBaseKv(bus, tr.lv_bus, n.bus_lookup))
    IN  RDiv(tap_rat, nom_rat)

AnyLvTapSide(trafo_df) == \E k \in DOMAIN trafo_df : trafo_df[k].tp_side = "lv"

(* _calc_branch_values_from_trafo_df, for one row: <<r, x, y, tap, shift>>,  *)
(* tap being the result of _calc_tap_from_dataframe                         *)
BranchValuesOf(n, bus, trafo_model, any_lv, tr, vn_lv, tap) ==
    CalcRXY(tr, any_lv, vn_lv, tap[2], trafo_model, n.sn_kva)
    \o <<CalcNominalRatio(n, bus, tr, tap[1], tap[2]), tap[3]>>

CalcBranchValues(n, bus, trafo_model, calculate_voltage_angles, trafo_df, has_st_degree, tr) ==
    BranchValuesOf(n, bus, trafo_model, AnyLvTapSide(trafo_df), tr,
                   GetBaseKv(bus, tr.lv_bus, n.bus_lookup),
                   CalcTapFromDataframe(tr, has_st_degree, calculate_voltage_angles))

TrafoRate(tr, with_parallel) ==
    LET base == RDiv(RMul(RDiv(tr.max_loading_percent, RInt(100)), tr.sn_kva), RInt(1000))
    IN  IF with_parallel THEN RMul(base, RInt(tr.parallel)) ELSE base

(* _calc_trafo_parameter (with_parallel) and the body of                     *)
(* _calc_trafo3w_parameter after the decomposition: 9 values per row         *)
CalcTrafoTable(n, bus, a, copy_constraints_to_ppc, trafo_df, has_st_degree, with_parallel) ==
    [k \in DOMAIN trafo_df |->
        LET tr == trafo_df[k]
        IN  <<n.bus_lookup[tr.hv_bus], n.bus_lookup[tr.lv_bus]>>
            \o CalcBranchValues(n, bus, a.trafo_model, a.calculate_voltage_angles,
                                trafo_df, has_st_degree, tr)
            \o <<BoolInt(tr.in_service),
                 IF copy_constraints_to_ppc THEN VQ(TrafoRate(tr, with_parallel))
                 ELSE VQ(RInt(0))>>]

CalcTrafoParameter(n, bus, a, copy_constraints_to_ppc) ==
    CalcTrafoTable(n, bus, a, copy_constraints_to_ppc, n.trafo, TRUE, TRUE)

-----------------------------------------------------------------------------
(* Three-winding decomposer *)

(* z_br_to_bus(z, s): star-leg values referenced to the hv rating *)
ZBrToBus(z, s) ==
    LET zbr_n == <<RMul(s[1], RDiv(z[1], RMin(s[1], s[2]))),
                   RMul(s[1], RDiv(z[2], RMin(s[2], s[3]))),
                   RMul(s[1], RDiv(z[3], RMin(s[1], s[3])))>>
        half(k, v) == RMul(RDiv(RMul(Q(1, 2), s[k]), s[1]), v)
    IN  <<half(1, RSub(RAdd(zbr_n[1], zbr_n[3]), zbr_n[2])),
          half(2, RSub(RAdd(zbr_n[2], zbr_n[1]), zbr_n[3])),
          half(3, RSub(RAdd(zbr_n[3], zbr_n[2]), zbr_n[1]))>>

(* tp_trafo: the index into the list taps (of length 3) chosen for a tap side *)
TpTrafo(tp_side) == IF tp_side = "hv" THEN 0 ELSE IF tp_side = "mv" THEN 1 ELSE 3

NoTap == [tp_pos |-> NaN, tp_mid |-> NaN, tp_max |-> NaN, tp_min |-> NaN,
          tp_st_percent |-> NaN, tp_side |-> "none"]

(* taps[k] after the loop over tap_variables, for a row whose index is valid *)
Taps(ttab, k) ==
    IF ttab.tp_side # "none" /\ TpTrafo(ttab.tp_side) = k
    THEN [tp_pos |-> ttab.tp_pos, tp_mid |-> ttab.tp_mid, tp_max |-> ttab.tp_max,
          tp_min |-> ttab.tp_min, tp_st_percent |-> ttab.tp_st_percent,
          tp_side |-> IF k = 0 THEN "hv" ELSE "lv"]
    ELSE NoTap

(* taps[tp_trafo][tv] = ... raises IndexError when tp_trafo is not 0, 1 or 2 *)
TapsIndexError(ttab) == ttab.tp_side # "none" /\ TpTrafo(ttab.tp_side) > 2

(* the dictionary trafos2w[i + leg * nr_trafos] written for the trafo3w row  *)
(* at position i (0-based); leg 0 hv-star, leg 1 star-mv, leg 2 star-lv;     *)
(* key is its key, the index label of its row in the data frame              *)
Trafo2wOf(ttab, i, leg, nr_trafos) ==
    LET uk == ZBrToBus(<<ttab.vsc_hv_percent, ttab.vsc_mv_percent, ttab.vsc_lv_percent>>,
                       <<ttab.sn_hv_kva, ttab.sn_mv_kva, ttab.sn_lv_kva>>)
        ur == ZBrToBus(<<ttab.vscr_hv_percent, ttab.vscr_mv_percent, ttab.vscr_lv_percent>>,
                       <<ttab.sn_hv_kva, ttab.sn_mv_kva, ttab.sn_lv_kva>>)
        tap == Taps(ttab, leg)
    IN  [hv_bus |-> IF leg = 0 THEN ttab.hv_bus ELSE ttab.ad_bus,
         lv_bus |-> IF leg = 0 THEN ttab.ad_bus
                    ELSE IF leg = 1 THEN ttab.mv_bus ELSE ttab.lv_bus,
         sn_kva |-> IF leg = 0 THEN ttab.sn_hv_kva
                    ELSE IF leg = 1 THEN ttab.sn_mv_kva ELSE ttab.sn_lv_kva,
         vn_hv_kv |-> ttab.vn_hv_kv,
         vn_lv_kv |-> IF leg = 0 THEN ttab.vn_hv_kv
                      ELSE IF leg = 1 THEN ttab.vn_mv_kv ELSE ttab.vn_lv_kv,
         vscr_percent |-> ur[leg + 1], vsc_percent |-> uk[leg + 1],
         pfe_kw |-> IF leg = 0 THEN ttab.pfe_kw ELSE RInt(0),
         i0_percent |-> IF leg = 0 THEN ttab.i0_percent ELSE RInt(0),
         tp_side |-> tap.tp_side, tp_mid |-> tap.tp_mid, tp_max |-> tap.tp_max,
         tp_min |-> tap.tp_min, tp_pos |-> tap.tp_pos,
         tp_st_percent |-> tap.tp_st_percent, parallel |-> 1,
         in_service |-> ttab.in_service,
         shift_degree |-> IF leg = 0 THEN RInt(0)
                          ELSE IF leg = 1 THEN ttab.shift_mv_degree ELSE ttab.shift_lv_degree,
         max_loading_percent |-> ttab.max_loading_percent,
         key |-> i + leg * nr_trafos]

(* pd.DataFrame(trafos2w).T: the dictionary keys are i, i + nr_trafos and    *)
(* i + 2 * nr_trafos for the row at position i.  pandas orders the rows by   *)
(* sorted key (all hv legs, all mv legs, all lv legs) or, in later versions, *)
(* by insertion (the three legs of each row together); sorts_keys says which. *)
Trafo3wRowOrder(nr_trafos, sorts_keys) ==
    [r \in 1..(3 * nr_trafos) |->
        IF sorts_keys
        THEN <<((r - 1) % nr_trafos) + 1, (r - 1) \div nr_trafos>>
        ELSE <<((r - 1) \div 3) + 1, (r - 1) % 3>>]

(* _trafo_df_from_trafo3w: [err, df] *)
TrafoDfFromTrafo3w(n) ==
    IF \E p \in DOMAIN n.trafo3w : TapsIndexError(n.trafo3w[p])
    THEN [err |-> "IndexError", df |-> <<>>]
    ELSE [err |-> "none",
          df |-> LET order == Trafo3wRowOrder(Len(n.trafo3w), n.sorts_keys)
                 IN  [r \in DOMAIN order |->
                         Trafo2wOf(n.trafo3w[order[r][1]], order[r][1] - 1, order[r][2],
                                   Len(n.trafo3w))]]

(* _calc_trafo3w_parameter, given the decomposition *)
CalcTrafo3wParameter(n, bus, a, copy_constraints_to_ppc, trafo_df) ==
    CalcTrafoTable(n, bus, a, copy_constraints_to_ppc, trafo_df, FALSE, FALSE)

-----------------------------------------------------------------------------
(* Branch assembler *)

LineEnd(n) == Len(n.line)
TrafoEnd(n) == LineEnd(n) + Len(n.trafo)
(* an assembler that reserves one row per three-winding transformer *)
Trafo3wEndOneRow(n) == TrafoEnd(n) + Len(n.trafo3w)
Trafo3wEnd(n) == TrafoEnd(n) + Len(n.trafo3w) * 3
ImpedanceEnd(n) == Trafo3wEnd(n) + Len(n.impedance)
XwardEnd(n) == ImpedanceEnd(n) + Len(n.xward)

(* the two-winding step shared by the build and the incremental update:     *)
(* [branch, err]                                                             *)
WriteTrafoRows(n, bus, a, branch) ==
    IF TrafoEnd(n) > LineEnd(n)
    THEN IF ~KnownTrafoModel(a.trafo_model)
         THEN [branch |-> branch, err |-> "ValueError"]
         ELSE [branch |-> SetRows(branch, LineEnd(n), TrafoCols,
                                  CalcTrafoParameter(n, bus, a, a.copy_constraints_to_ppc)),
               err |-> "none"]
    ELSE [branch |-> branch, err |-> "none"]

(* the assignment of the three-winding rows *)
AssignTrafo3wRows(branch, lo, cols, t, known, df) ==
    IF ~known \/ ~SetRowsFits(cols, t)
    THEN [branch |-> branch, err |-> "ValueError", df |-> df]
    ELSE [branch |-> SetRows(branch, lo, cols, t), err |-> "none", df |-> df]

Trafo3wStep(n, bus, a, branch, cols, copy, d) ==
    IF d.err # "none"
    THEN [branch |-> branch, err |-> d.err, df |-> <<>>]
    ELSE AssignTrafo3wRows(branch, TrafoEnd(n), cols,
                           CalcTrafo3wParameter(n, bus, a, copy, d.df),
                           KnownTrafoModel(a.trafo_model), d.df)

(* the three-winding step: cols are the columns the caller assigns to and    *)
(* copy the constraint flag it passes on: [branch, err, df]                  *)
WriteTrafo3wRows(n, bus, a, branch, cols, copy) ==
    IF Trafo3wEnd(n) > TrafoEnd(n)
    THEN Trafo3wStep(n, bus, a, branch, cols, copy, TrafoDfFromTrafo3w(n))
    ELSE [branch |-> branch, err |-> "none", df |-> <<>>]

(* np.zeros(shape=(xward_end, QT + 3)) with the defaults in columns 0..12 *)
AllocateBranch(n) == [i \in 1..XwardEnd(n) |-> DefaultBranchRow]

WriteLineRows(n, bus, a, branch) ==
    IF LineEnd(n) > 0
    THEN SetRows(branch, 0, LineCols, CalcLineParameter(n, bus, a.copy_constraints_to_ppc))
    ELSE branch

WriteImpedanceRows(n, branch) ==
    IF ImpedanceEnd(n) > Trafo3wEnd(n)
    THEN SetRows(branch, Trafo3wEnd(n), ImpedanceCols, CalcImpedanceParameter(n))
    ELSE branch

WriteXwardRows(n, bus, branch) ==
    IF XwardEnd(n) > ImpedanceEnd(n)
    THEN SetRows(branch, ImpedanceEnd(n), XwardCols, CalcXwardParameter(n, bus))
    ELSE branch

(* the build after the three-winding step s3 *)
BuildAfterTrafo3w(n, bus, s3) ==
    IF s3.err # "none" THEN s3
    ELSE [branch |-> WriteXwardRows(n, bus, WriteImpedanceRows(n, s3.branch)),
          err |-> "none", df |-> s3.df]

(* the build after the two-winding step s2 *)
BuildAfterTrafo(n, bus, a, s2) ==
    IF s2.err # "none" THEN [branch |-> s2.branch, err |-> s2.err, df |-> <<>>]
    ELSE BuildAfterTrafo3w(n, bus,
             WriteTrafo3wRows(n, bus, a, s2.branch, TrafoCols, a.copy_constraints_to_ppc))

(* _build_branch_ppc: [branch, err, df].  An exception leaves ppc["branch"]  *)
(* as it is when it is raised.                                               *)
BuildBranchPpc(n, bus, a) ==
    BuildAfterTrafo(n, bus, a,
        WriteTrafoRows(n, bus, a, WriteLineRows(n, bus, a, AllocateBranch(n))))

UpdateAfterTrafo(n, bus, a, s2) ==
    IF s2.err # "none" THEN [branch |-> s2.branch, err |-> s2.err, df |-> <<>>]
    ELSE WriteTrafo3wRows(n, bus, a, s2.branch, Trafo3wUpdateCols, FALSE)

(* _update_trafo_trafo3w_ppc: [branch, err, df] *)
UpdateTrafoTrafo3wPpc(n, bus, a, branch) ==
    UpdateAfterTrafo(n, bus, a, WriteTrafoRows(n, bus, a, branch))

-----------------------------------------------------------------------------
(* Topology materializer: switches *)

Max(S) == CHOOSE x \in S : \A y \in S : y <= x

(* the positions at which a boolean mask is true, in table order *)
Positions(mask) == SelectSeq([i \in 1..Len(mask) |-> i], LAMBDA i : mask[i])

LineAt(n, label) == n.line[CHOOSE p \in DOMAIN n.line : n.line[p].index = label]
TrafoAt(n, label) == n.trafo[CHOOSE p \in DOMAIN n.trafo : n.trafo[p].index = label]
(* index.get_loc(label): the 0-based position of a label in its table *)
LineLoc(n, label) == (CHOOSE p \in DOMAIN n.line : n.line[p].index = label) - 1
TrafoLoc(n, label) == (CHOOSE p \in DOMAIN n.trafo : n.trafo[p].index = label) - 1

(* net["_is_elems"]: the index labels of the in-service lines and buses *)
LinesIs(n) == {n.line[p].index : p \in {q \in DOMAIN n.line : n.line[q].in_service}}
BusIs(n) == {b \in DOMAIN n.bus : n.bus[b].in_service}

IsOpenOf(sw, et) == ~sw.closed /\ sw.et = et

(* sw_elem[~m]: the elements of the open line switches that are not the     *)
(* first open line switch of their element, in table order                   *)
DuplicateElements(n) ==
    LET open == Positions([q \in DOMAIN n.switch |-> IsOpenOf(n.switch[q], "l")])
        sw_elem == [k \in DOMAIN open |-> n.switch[open[k]].element]
        later == SelectSeq([k \in DOMAIN sw_elem |-> k],
                           LAMBDA k : \E j \in 1..(k - 1) : sw_elem[j] = sw_elem[k])
    IN  [k \in DOMAIN later |-> sw_elem[later[k]]]

(* lines_is.ix[sw_elem[~m]] without the rows that come back as NaN *)
DisabledLines(n) == Range(DuplicateElements(n)) \cap LinesIs(n)

(* np.in1d(branch[:, 0], ppc_from) & np.in1d(branch[:, 1], ppc_to) *)
MatchesDisabled(n, row) ==
    /\ row.F_BUS \in {n.bus_lookup[LineAt(n, d).from_bus] : d \in DisabledLines(n)}
    /\ row.T_BUS \in {n.bus_lookup[LineAt(n, d).to_bus] : d \in DisabledLines(n)}

(* a switch pass that forgets to disable the doubly switched lines *)
DisableDuplicatesNothing(n, branch) == branch

DisableDuplicates(n, branch) ==
    [i \in DOMAIN branch |->
        IF DisabledLines(n) # {} /\ MatchesDisabled(n, branch[i])
        THEN [branch[i] EXCEPT !.BR_STATUS = 0] ELSE branch[i]]

(* lines_is.drop(sw_elem[~m]) raises when a label is not in lines_is *)
DropRaises(n) ==
    DisabledLines(n) # {} /\ \E d \in Range(DuplicateElements(n)) : d \notin LinesIs(n)

(* a switch pass that keeps the doubly switched lines in lines_is *)
LinesIsKeepsAll(n) == LinesIs(n)

LinesIsAfterDrop(n) ==
    IF DisabledLines(n) # {} THEN LinesIs(n) \ Range(DuplicateElements(n)) ELSE LinesIs(n)

(* slidx after the filter, and stidx: positions in the switch table *)
LineSwitchSelected(n, sw) ==
    IsOpenOf(sw, "l") /\ sw.element \in LinesIsAfterDrop(n) /\ sw.bus \in BusIs(n)

(* a switch pass that takes every open switch that is not a line switch for *)
(* a transformer switch                                                      *)
TrafoSwitchSelectedNotLine(sw) == ~sw.closed /\ sw.et # "l"

TrafoSwitchSelected(sw) == IsOpenOf(sw, "t")

(* _gather_branch_switch_info *)
GatherBranchSwitchInfo(n, sw, branch_type) ==
    IF branch_type = "l"
    THEN [is_to_bus |-> BoolInt(LineAt(n, sw.element).to_bus = sw.bus), bus |-> sw.bus,
          pos |-> LineLoc(n, sw.element)]
    ELSE [is_to_bus |-> BoolInt(TrafoAt(n, sw.element).lv_bus = sw.bus), bus |-> sw.bus,
          pos |-> TrafoLoc(n, sw.element)]

(* the branch row whose end bus seeds the voltage of the new bus of a        *)
(* transformer switch: row ts_info[:, 2] of the branch matrix                *)
TrafoSeedRow(n, info) == info.pos

(* the end bus of a branch row on the side of the switch *)
EndBus(row, info) == IF info.is_to_bus = 1 THEN row.T_BUS ELSE row.F_BUS

(* new_ls_buses *)
NewLineSwitchBuses(n, branch, bus, infos) ==
    [j \in DOMAIN infos |->
        LET seed == Row(bus, EndBus(Row(branch, infos[j].pos), infos[j]))
        IN  [DefaultBusRow EXCEPT !.BUS_I = Len(bus) + j - 1,
                                  !.BASE_KV = GetBaseKv(bus, infos[j].bus, n.bus_lookup),
                                  !.VM = seed.VM, !.VA = seed.VA]]

(* new_ts_buses; n_new is the index of the first new bus *)
NewTrafoSwitchBuses(n, branch, bus, infos, n_new) ==
    [j \in DOMAIN infos |->
        LET brow == Row(branch, TrafoSeedRow(n, infos[j]))
            seed == Row(bus, EndBus(brow, infos[j]))
        IN  [DefaultBusRow EXCEPT !.BUS_I = n_new + j - 1,
                                  !.BASE_KV = GetBaseKv(bus, infos[j].bus, n.bus_lookup),
                                  !.VM = RMul(seed.VM, brow.TAP),
                                  !.VA = RAdd(seed.VA, brow.SHIFT)]]

(* branch[offset + pos, 1 or 0] = new_indices[...]: when two switches name   *)
(* the same row and end, the later assignment stays                          *)
Reroute(branch, infos, n_new, offset) ==
    [i \in DOMAIN branch |->
        LET at(e) == {j \in DOMAIN infos :
                        infos[j].is_to_bus = e /\ offset + infos[j].pos = i - 1}
            r1 == IF at(1) # {} THEN [branch[i] EXCEPT !.T_BUS = n_new + Max(at(1)) - 1]
                  ELSE branch[i]
        IN  IF at(0) # {} THEN [r1 EXCEPT !.F_BUS = n_new + Max(at(0)) - 1] ELSE r1]

LineSwitchInfo(n) ==
    LET lsel == Positions([q \in DOMAIN n.switch |-> LineSwitchSelected(n, n.switch[q])])
    IN  [j \in DOMAIN lsel |-> GatherBranchSwitchInfo(n, n.switch[lsel[j]], "l")]

TrafoSwitchInfo(n) ==
    LET tsel == Positions([q \in DOMAIN n.switch |-> TrafoSwitchSelected(n.switch[q])])
    IN  [j \in DOMAIN tsel |-> GatherBranchSwitchInfo(n, n.switch[tsel[j]], "t")]

(* if nto: ... on the matrix and the bus array the line stage left *)
TrafoSwitchStage(n, branch, bus, ts_info, n_new) ==
    IF Len(ts_info) > 0
    THEN [branch |-> Reroute(branch, ts_info, n_new, LineEnd(n)),
          bus |-> bus \o NewTrafoSwitchBuses(n, branch, bus, ts_info, n_new),
          err |-> "none"]
    ELSE [branch |-> branch, bus |-> bus, err |-> "none"]

(* a transformer stage that numbers its buses from n_bus, as the line stage *)
TrafoNewIndexStartAtNBus(n_bus, nlo) == n_bus

(* np.arange(n_bus + nlo, n_bus + nlo + nto)[0] *)
TrafoNewIndexStart(n_bus, nlo) == n_bus + nlo

(* if nlo: ..., then the transformer stage *)
LineSwitchStage(n, branch, bus, ls_info, ts_info) ==
    TrafoSwitchStage(n,
        IF Len(ls_info) > 0 THEN Reroute(branch, ls_info, Len(bus), 0) ELSE branch,
        IF Len(ls_info) > 0 THEN bus \o NewLineSwitchBuses(n, branch, bus, ls_info) ELSE bus,
        ts_info, TrafoNewIndexStart(Len(bus), Len(ls_info)))

DisableStage(n, branch) ==
    IF DuplicateElements(n) # <<>> THEN DisableDuplicates(n, branch) ELSE branch

SwitchAfterDisable(n, branch, bus) ==
    IF DropRaises(n)
    THEN [branch |-> branch, bus |-> bus, err |-> "ValueError"]
    ELSE LineSwitchStage(n, branch, bus, LineSwitchInfo(n), TrafoSwitchInfo(n))

(* _switch_branches: [branch, bus, err] *)
SwitchBranches(n, branch, bus) == SwitchAfterDisable(n, DisableStage(n, branch), bus)

-----------------------------------------------------------------------------
(* Topology materializer: out-of-service buses *)

BusOos(n) == DOMAIN n.bus \ BusIs(n)

(* positions (in net.line) of the in-service lines, in table order *)
LineIsPositions(n) == Positions([p \in DOMAIN n.line |-> n.line[p].in_service])

OosFrom(n, p) == n.line[p].from_bus \in BusOos(n)
OosTo(n, p) == n.line[p].to_bus \in BusOos(n)

(* line_is[mask_and].index used as row numbers of the branch matrix *)
OosDisabledRows(n) ==
    {n.line[p].index : p \in {q \in Range(LineIsPositions(n)) : OosFrom(n, q) /\ OosTo(n, q)}}

(* the lines left after the mask_and lines are removed that have an oos end  *)
OosLinePositions(n) ==
    SelectSeq(LineIsPositions(n),
              LAMBDA p : (OosFrom(n, p) \/ OosTo(n, p)) /\ ~(OosFrom(n, p) /\ OosTo(n, p)))

(* np.r_[f_bus[mask_from], t_bus[mask_to]] *)
OosBusesAtLines(n) ==
    LET one == OosLinePositions(n)
        fr == SelectSeq(one, LAMBDA p : OosFrom(n, p))
        to == SelectSeq(one, LAMBDA p : OosTo(n, p))
    IN  [k \in DOMAIN fr |-> n.line[fr[k]].from_bus] \o [k \in DOMAIN to |-> n.line[to[k]].to_bus]

(* ls_info of the out-of-service pass *)
OosInfo(n) ==
    LET one == OosLinePositions(n)
        buses == OosBusesAtLines(n)
    IN  [k \in DOMAIN one |->
            [is_to_bus |-> BoolInt(OosTo(n, one[k]) /\ ~OosFrom(n, one[k])),
             bus |-> buses[k], pos |-> one[k] - 1]]

NewOosBuses(n, bus, infos) ==
    [j \in DOMAIN infos |->
        [DefaultBusRow EXCEPT !.BUS_I = Len(bus) + j - 1,
                              !.BASE_KV = GetBaseKv(bus, infos[j].bus, n.bus_lookup)]]

OosDisable(branch, rows) ==
    [i \in DOMAIN branch |->
        IF (i - 1) \in rows THEN [branch[i] EXCEPT !.BR_STATUS = 0] ELSE branch[i]]

OosReroute(n, branch, bus, infos) ==
    IF Len(infos) > 0
    THEN [branch |-> Reroute(branch, infos, Len(bus), 0),
          bus |-> bus \o NewOosBuses(n, bus, infos), err |-> "none"]
    ELSE [branch |-> branch, bus |-> bus, err |-> "none"]

(* _branches_with_oos_buses: [branch, bus, err] *)
BranchesWithOosBuses(n, branch, bus) ==
    IF BusOos(n) = {} THEN [branch |-> branch, bus |-> bus, err |-> "none"]
    ELSE IF \E r \in OosDisabledRows(n) : r >= Len(branch)
    THEN [branch |-> branch, bus |-> bus, err |-> "IndexError"]
    ELSE OosReroute(n, OosDisable(branch, OosDisabledRows(n)), bus, OosInfo(n))

-----------------------------------------------------------------------------
(* The nets the model runs on.  Six buses: bus 0 at 110 kV, bus 3 at 10 kV,  *)
(* the others at 20 kV.  The bus lookup reverses the external ids, so that   *)
(* an external id and its internal index differ.                             *)

NBus == 6

BusVn(b) == IF b = 0 THEN RInt(110) ELSE IF b = 3 THEN RInt(10) ELSE RInt(20)

MkBus(oos) == [b \in 0..(NBus - 1) |-> [vn_kv |-> BusVn(b), in_service |-> b \notin oos]]

BusLookup == [b \in 0..(NBus - 1) |-> NBus - 1 - b]

(* the bus matrix the bus builder hands over: base voltage of the mapped     *)
(* bus, and voltage estimates that differ from bus to bus                    *)
InitialBus(n) ==
    [i \in 1..NBus |->
        [DefaultBusRow EXCEPT !.BUS_I = i - 1, !.BASE_KV = n.bus[NBus - i].vn_kv,
                              !.VM = Q(100 + i, 100), !.VA = RInt(-i)]]

MkLine(label, fb, tb, is) ==
    [index |-> label, from_bus |-> fb, to_bus |-> tb, length_km |-> RInt(5),
     r_ohm_per_km |-> Q(1, 10), x_ohm_per_km |-> Q(1, 5), c_nf_per_km |-> RInt(10),
     parallel |-> 1 + (label % 2), in_service |-> is,
     max_loading_percent |-> RInt(80), max_i_ka |-> Q(1, 5), df |-> RInt(1)]

MkTap(side, pos, mid, st_percent, st_degree) ==
    [tp_side |-> side, tp_pos |-> pos, tp_mid |-> mid, tp_min |-> RInt(-2),
     tp_max |-> RInt(2), tp_st_percent |-> st_percent, tp_st_degree |-> st_degree]

MkTrafo(label, hv, lv, vn, is, tap, shift) ==
    [index |-> label, hv_bus |-> hv, lv_bus |-> lv, vn_hv_kv |-> vn[1],
     vn_lv_kv |-> vn[2], sn_kva |-> RInt(400), vsc_percent |-> RInt(5),
     vscr_percent |-> RInt(3), pfe_kw |-> RInt(1), i0_percent |-> RInt(1),
     tp_side |-> tap.tp_side, tp_pos |-> tap.tp_pos, tp_mid |-> tap.tp_mid,
     tp_min |-> tap.tp_min, tp_max |-> tap.tp_max, tp_st_percent |-> tap.tp_st_percent,
     tp_st_degree |-> tap.tp_st_degree, shift_degree |-> shift,
     parallel |-> 1 + (label % 2), in_service |-> is, max_loading_percent |-> RInt(90)]

MkTrafo3w(label, side, pos) ==
    [index |-> label, hv_bus |-> 0, mv_bus |-> 2, lv_bus |-> 3, ad_bus |-> 5,
     vn_hv_kv |-> RInt(110), vn_mv_kv |-> RInt(20), vn_lv_kv |-> RInt(10),
     sn_hv_kva |-> RInt(1000), sn_mv_kva |-> RInt(600), sn_lv_kva |-> RInt(400),
     vsc_hv_percent |-> RInt(10), vsc_mv_percent |-> RInt(11), vsc_lv_percent |-> RInt(12),
     vscr_hv_percent |-> Q(3, 10), vscr_mv_percent |-> Q(2, 5), vscr_lv_percent |-> Q(1, 2),
     pfe_kw |-> RInt(2), i0_percent |-> Q(1, 2),
     tp_side |-> side, tp_pos |-> pos, tp_mid |-> RInt(0), tp_min |-> RInt(-2),
     tp_max |-> RInt(2), tp_st_percent |-> Q(5, 2),
     shift_mv_degree |-> RInt(0), shift_lv_degree |-> RInt(150),
     in_service |-> TRUE, max_loading_percent |-> RInt(70)]

MkImpedance(label, fb, tb) ==
    [index |-> label, from_bus |-> fb, to_bus |-> tb, rft_pu |-> Q(1, 10),
     xft_pu |-> Q(1, 5), rtf_pu |-> Q(3, 20), xtf_pu |-> Q(1, 4), sn_kva |-> RInt(500),
     in_service |-> TRUE]

MkXward(label, b, ad, is) ==
    [index |-> label, bus |-> b, ad_bus |-> ad, r_ohm |-> RInt(1), x_ohm |-> RInt(2),
     xw_is |-> is]

MkSwitch(b, element, et, closed) ==
    [bus |-> b, element |-> element, et |-> et, closed |-> closed]

MkNet(line, trafo, trafo3w, impedance, xward, switch, oos, sorts_keys) ==
    [sn_kva |-> RInt(1000), f_hz |-> 50, bus |-> MkBus(oos), bus_lookup |-> BusLookup,
     line |-> line, trafo |-> trafo, trafo3w |-> trafo3w, impedance |-> impedance,
     xward |-> xward, switch |-> switch, sorts_keys |-> sorts_keys]

TrafoModels == {"pi", "t", "gamma"}

Args == [calculate_voltage_angles : BOOLEAN, trafo_model : TrafoModels,
         copy_constraints_to_ppc : BOOLEAN]

TapPositions == {RInt(v) : v \in (-MaxTapPos)..MaxTapPos}

StdTap == MkTap("hv", RInt(0), RInt(0), Q(5, 2), NaN)

-----------------------------------------------------------------------------
(* The state machine: one build, the two topology passes, then tap changes   *)
(* and incremental updates on the matrix that is kept between power flows    *)

InitWith(n, a) ==
    /\ net = n
    /\ args = a
    /\ ppc_branch = <<>>
    /\ ppc_bus = InitialBus(n)
    /\ trafo3w_df = <<>>
    /\ pc = "start"
    /\ op = "none"
    /\ err = "none"

After(ok, nextpc) == IF ok THEN nextpc ELSE "failed"

Build ==
    /\ pc = "start"
    /\ \E r \in {BuildBranchPpc(net, ppc_bus, args)} :
          /\ ppc_branch' = r.branch
          /\ trafo3w_df' = r.df
          /\ err' = r.err
          /\ pc' = After(r.err = "none", "built")
    /\ op' = "build"
    /\ UNCHANGED <<net, args, ppc_bus>>

Switch ==
    /\ pc = "built"
    /\ \E r \in {SwitchBranches(net, ppc_branch, ppc_bus)} :
          /\ ppc_branch' = r.branch
          /\ ppc_bus' = r.bus
          /\ err' = r.err
          /\ pc' = After(r.err = "none", "switched")
    /\ op' = "switch"
    /\ UNCHANGED <<net, args, trafo3w_df>>

OosBuses ==
    /\ pc = "switched"
    /\ \E r \in {BranchesWithOosBuses(net, ppc_branch, ppc_bus)} :
          /\ ppc_branch' = r.branch
          /\ ppc_bus' = r.bus
          /\ err' = r.err
          /\ pc' = After(r.err = "none", "done")
    /\ op' = "oos"
    /\ UNCHANGED <<net, args, trafo3w_df>>

(* between two power flows the tap position of a transformer is changed *)
SetTapPos ==
    /\ pc \in {"done", "updated"}
    /\ \E k \in DOMAIN net.trafo, v \in TapPositions :
          /\ net.trafo[k].tp_side # "none"
          /\ net.trafo[k].tp_pos # v
          /\ net' = [net EXCEPT !.trafo[k].tp_pos = v]
    /\ op' = "set_tap"
    /\ UNCHANGED <<args, ppc_branch, ppc_bus, trafo3w_df, pc, err>>

Update ==
    /\ pc \in {"done", "updated"}
    /\ \E r \in {UpdateTrafoTrafo3wPpc(net, ppc_bus, args, ppc_branch)} :
          /\ ppc_branch' = r.branch
          /\ trafo3w_df' = r.df
          /\ err' = r.err
          /\ pc' = After(r.err = "none", "updated")
    /\ op' = "update"
    /\ UNCHANGED <<net, args, ppc_bus>>

Next == Build \/ Switch \/ OosBuses \/ SetTapPos \/ Update

(* the full build alone: the assembler and the two topology passes *)
NextTopology == Build \/ Switch \/ OosBuses

-----------------------------------------------------------------------------
(* Spec: nets with every combination of element counts, every tap side of   *)
(* the three-winding transformers and every argument of the build            *)

TapSides3w == {"none", "hv", "mv", "lv"}

CountLines(nL) ==
    [p \in 1..nL |-> IF p % 2 = 1 THEN MkLine(p - 1, 1, 2, TRUE) ELSE MkLine(p - 1, 2, 4, TRUE)]

CountTrafos(nT) ==
    [k \in 1..nT |->
        IF k % 2 = 1
        THEN MkTrafo(k - 1, 0, 1, <<RInt(110), RInt(20)>>, TRUE,
                     MkTap("hv", RInt(1), RInt(0), Q(5, 2), NaN), RInt(150))
        ELSE MkTrafo(k - 1, 0, 4, <<RInt(110), RInt(20)>>, TRUE,
                     MkTap("lv", RInt(-1), RInt(0), Q(5, 2), RInt(30)), RInt(0))]

CountTrafo3w(nT3, side) ==
    [k \in 1..nT3 |->
        IF k % 2 = 1 /\ side # "none" THEN MkTrafo3w(k - 1, side, RInt(1))
        ELSE MkTrafo3w(k - 1, "none", NaN)]

CountImpedances(nI) == [k \in 1..nI |-> MkImpedance(k - 1, 1, 4)]

CountXwards(nX) == [k \in 1..nX |-> MkXward(k - 1, 2, 3, k % 2 = 1)]

CountSwitches(nL, nT) ==
    (IF nL > 0 THEN <<MkSwitch(1, 0, "l", FALSE)>> ELSE <<>>)
    \o (IF nT > 0 THEN <<MkSwitch(1, 0, "t", FALSE)>> ELSE <<>>)

Init ==
    \E nL \in 0..MaxLine, nT \in 0..MaxTrafo, nT3 \in 0..MaxTrafo3w,
       nI \in 0..MaxImpedance, nX \in 0..MaxXward, side \in TapSides3w,
       sorts_keys \in BOOLEAN, a \in Args :
        /\ nT3 < 2 => sorts_keys
        /\ nT3 = 0 => side = "none"
        /\ InitWith(MkNet(CountLines(nL), CountTrafos(nT), CountTrafo3w(nT3, side),
                          CountImpedances(nI), CountXwards(nX), CountSwitches(nL, nT),
                          {}, sorts_keys), a)

Spec == Init /\ [][Next]_vars

(* SpecBuild: the same nets, through the full build only *)
SpecBuild == Init /\ [][NextTopology]_vars

-----------------------------------------------------------------------------
(* SpecSwitch: one net of three lines (two of them parallel), a transformer, *)
(* an impedance and an extended ward, with every switch table of up to       *)
(* MaxSwitch switches and lines and a bus in or out of service               *)

SwitchChoices ==
    {MkSwitch(1, 0, "l", FALSE), MkSwitch(2, 0, "l", FALSE), MkSwitch(1, 1, "l", FALSE),
     MkSwitch(4, 2, "l", FALSE), MkSwitch(0, 0, "t", FALSE), MkSwitch(1, 0, "t", FALSE),
     MkSwitch(1, 0, "b", FALSE), MkSwitch(1, 0, "l", TRUE)}

SwitchTables == UNION {[1..k -> SwitchChoices] : k \in 0..MaxSwitch}

SwitchArgs == [calculate_voltage_angles |-> TRUE, trafo_model |-> "pi",
               copy_constraints_to_ppc |-> FALSE]

SwitchNet(is0, is2, oos, switch) ==
    MkNet(<<MkLine(0, 1, 2, is0), MkLine(1, 1, 2, TRUE), MkLine(2, 2, 4, is2)>>,
          <<MkTrafo(0, 0, 1, <<RInt(110), RInt(20)>>, TRUE, StdTap, RInt(150))>>,
          <<>>, <<MkImpedance(0, 1, 4)>>, <<MkXward(0, 2, 3, TRUE)>>, switch, oos, TRUE)

InitSwitch ==
    \E is0 \in BOOLEAN, is2 \in BOOLEAN, oos \in {{}, {4}}, switch \in SwitchTables :
        InitWith(SwitchNet(is0, is2, oos, switch), SwitchArgs)

SpecSwitch == InitSwitch /\ [][NextTopology]_vars

-----------------------------------------------------------------------------
(* SpecOos: three lines on two voltage levels (buses 3 and 4 at 10 kV), a    *)
(* transformer and an impedance, no switches; every set of out-of-service    *)
(* buses, every in-service flag of the lines and line index labels that are  *)
(* contiguous from 0 or not                                                  *)

OosBus(oos) ==
    [b \in 0..(NBus - 1) |->
        [vn_kv |-> IF b \in {3, 4} THEN RInt(10) ELSE BusVn(b), in_service |-> b \notin oos]]

LineLabels == {<<0, 1, 2>>, <<1, 2, 3>>, <<2, 0, 7>>}

OosNet(labels, is, oos) ==
    [MkNet(<<MkLine(labels[1], 1, 2, is[1]), MkLine(labels[2], 3, 4, is[2]),
             MkLine(labels[3], 2, 5, is[3])>>,
           <<MkTrafo(0, 0, 1, <<RInt(110), RInt(20)>>, TRUE, StdTap, RInt(150))>>,
           <<>>, <<MkImpedance(0, 1, 5)>>, <<>>, <<>>, oos, TRUE)
     EXCEPT !.bus = OosBus(oos)]

InitOos ==
    \E labels \in LineLabels, is \in [1..3 -> BOOLEAN], oos \in SUBSET {1, 2, 3, 4, 5} :
        InitWith(OosNet(labels, is, oos), SwitchArgs)

SpecOos == InitOos /\ [][NextTopology]_vars

-----------------------------------------------------------------------------
(* SpecTap: one line and one transformer, with every tap configuration *)

TapNet(tap, vn, shift) ==
    MkNet(<<MkLine(0, 1, 2, TRUE)>>, <<MkTrafo(0, 0, 1, vn, TRUE, tap, shift)>>,
          <<>>, <<>>, <<>>, <<MkSwitch(1, 0, "t", FALSE)>>, {}, TRUE)

InitTap ==
    \E side \in {"none", "hv", "lv"}, pos \in TapPositions \cup {NaN},
       mid \in {RInt(0), RInt(1)}, st_percent \in {NaN, Q(5, 2)},
       st_degree \in {NaN, Q(1, 2)}, shift \in {RInt(0), RInt(150)},
       vn \in {<<RInt(110), RInt(20)>>, <<RInt(115), RInt(21)>>},
       cva \in BOOLEAN :
        InitWith(TapNet(MkTap(side, pos, mid, st_percent, st_degree), vn, shift),
                 [calculate_voltage_angles |-> cva, trafo_model |-> "pi",
                  copy_constraints_to_ppc |-> FALSE])

SpecTap == InitTap /\ [][Next]_vars

-----------------------------------------------------------------------------
(* Properties *)

(* what it means for a branch row to hold an element of the net *)
HoldsLine(n, row, l) ==
    /\ row.F_BUS = n.bus_lookup[l.from_bus]
    /\ row.T_BUS = n.bus_lookup[l.to_bus]
    /\ row.BR_STATUS = BoolInt(l.in_service)

HoldsTrafo(n, row, t) ==
    /\ row.F_BUS = n.bus_lookup[t.hv_bus]
    /\ row.T_BUS = n.bus_lookup[t.lv_bus]
    /\ row.BR_STATUS = BoolInt(t.in_service)

HoldsLeg(n, row, t3, leg) ==
    /\ row.F_BUS = n.bus_lookup[IF leg = 0 THEN t3.hv_bus ELSE t3.ad_bus]
    /\ row.T_BUS = n.bus_lookup[IF leg = 0 THEN t3.ad_bus
                                ELSE IF leg = 1 THEN t3.mv_bus ELSE t3.lv_bus]

HoldsImpedance(n, row, z) ==
    /\ row.F_BUS = n.bus_lookup[z.from_bus]
    /\ row.T_BUS = n.bus_lookup[z.to_bus]
    /\ row.c17 # VQ(RInt(0))

HoldsXward(n, row, w) ==
    /\ row.F_BUS = n.bus_lookup[w.bus]
    /\ row.T_BUS = n.bus_lookup[w.ad_bus]
    /\ row.BR_STATUS = BoolInt(w.xw_is)

(* C1: after a build that completes the branch matrix has L + T + 3*T3 + I + X *)
(* rows; rows [0, L) hold the lines in table order, the next T rows the       *)
(* two-winding transformers, the next 3*T3 rows the legs of the three-winding *)
(* transformers (every leg of every transformer once), the next I rows the    *)
(* impedances and the last X rows the extended wards; an empty table takes no *)
(* rows and moves no other range.                                             *)
C1_RowRanges ==
    pc = "built" =>
        LET L == Len(net.line)
            T == Len(net.trafo)
            T3 == Len(net.trafo3w)
            I == Len(net.impedance)
            X == Len(net.xward)
        IN  /\ Len(ppc_branch) = L + T + 3 * T3 + I + X
            /\ \A p \in 1..L : HoldsLine(net, ppc_branch[p], net.line[p])
            /\ \A k \in 1..T : HoldsTrafo(net, ppc_branch[L + k], net.trafo[k])
            /\ \A r \in 1..(3 * T3) :
                  \E k \in 1..T3, leg \in 0..2 :
                      HoldsLeg(net, ppc_branch[L + T + r], net.trafo3w[k], leg)
            /\ \A leg \in 0..2 :
                  Cardinality({r \in 1..(3 * T3) :
                      \E k \in 1..T3 :
                          HoldsLeg(net, ppc_branch[L + T + r], net.trafo3w[k], leg)}) = T3
            /\ \A k \in 1..I :
                  HoldsImpedance(net, ppc_branch[L + T + 3 * T3 + k], net.impedance[k])
            /\ \A k \in 1..X :
                  HoldsXward(net, ppc_branch[L + T + 3 * T3 + I + k], net.xward[k])

(* a built matrix with lines, no two-winding transformer, a three-winding    *)
(* transformer, no impedance and an extended ward                            *)
C1_Witness ==
    /\ pc = "built"
    /\ Len(net.line) >= 2
    /\ Len(net.trafo) = 0
    /\ Len(net.trafo3w) >= 1
    /\ Len(net.impedance) = 0
    /\ Len(net.xward) >= 1

(* the open line switches of a line *)
OpenLineSwitches(n, label) ==
    {q \in DOMAIN n.switch :
        ~n.switch[q].closed /\ n.switch[q].et = "l" /\ n.switch[q].element = label}

(* the in-service lines that have two or more open switches (positions) *)
MultiSwitchLines(n) ==
    {p \in DOMAIN n.line :
        n.line[p].in_service /\ Cardinality(OpenLineSwitches(n, n.line[p].index)) >= 2}

(* the open switches the pass processes: every open transformer switch, and  *)
(* every open line switch at an in-service bus of an in-service line that    *)
(* has no other open switch                                                  *)
ProcessedSwitches(n) ==
    {q \in DOMAIN n.switch :
        /\ ~n.switch[q].closed
        /\ \/ n.switch[q].et = "t"
           \/ /\ n.switch[q].et = "l"
              /\ n.bus[n.switch[q].bus].in_service
              /\ \E p \in DOMAIN n.line :
                    /\ n.line[p].index = n.switch[q].element
                    /\ n.line[p].in_service
              /\ Cardinality(OpenLineSwitches(n, n.switch[q].element)) = 1}

(* C2: one run of the switch pass leaves the number of branch rows unchanged *)
(* and, when it completes, increases the number of bus rows by the number of *)
(* open line and transformer switches it processes; the open switches of a   *)
(* line with more than one open switch are not among them.                   *)
C2_SwitchPassCounts ==
    [][(pc = "built" /\ pc' # "built") =>
          /\ Len(ppc_branch') = Len(ppc_branch)
          /\ pc' = "switched" =>
                Len(ppc_bus') = Len(ppc_bus) + Cardinality(ProcessedSwitches(net))]_vars

(* a completed pass over a net with a doubly switched in-service line and a  *)
(* processed open line switch of another line                                *)
C2_Witness ==
    /\ pc = "switched"
    /\ MultiSwitchLines(net) # {}
    /\ \E q \in ProcessedSwitches(net) : net.switch[q].et = "l"
    /\ Len(ppc_bus) > NBus

(* the open switches that do not belong to a doubly switched in-service line *)
(* and pass the in-service filter                                            *)
SwitchesOfOtherBranches(n) ==
    {q \in DOMAIN n.switch :
        /\ ~n.switch[q].closed
        /\ \/ n.switch[q].et = "t"
           \/ /\ n.switch[q].et = "l"
              /\ n.bus[n.switch[q].bus].in_service
              /\ \E p \in DOMAIN n.line \ MultiSwitchLines(n) :
                    n.line[p].index = n.switch[q].element /\ n.line[p].in_service}

(* C3: for every in-service line with two or more open switches the switch   *)
(* pass sets the status of the line's row to 0, leaves both endpoints of the *)
(* row at the buses of the line, and appends no bus for any of its switches: *)
(* the buses appended are those of the switches of the other branches.       *)
C3_MultiSwitchLineDisabled ==
    op = "switch" =>
        \A p \in MultiSwitchLines(net) :
            /\ ppc_branch[p].BR_STATUS = 0
            /\ ppc_branch[p].F_BUS = net.bus_lookup[net.line[p].from_bus]
            /\ ppc_branch[p].T_BUS = net.bus_lookup[net.line[p].to_bus]
            /\ Len(ppc_bus) - NBus =
                   IF err = "none" THEN Cardinality(SwitchesOfOtherBranches(net)) ELSE 0

(* a switch pass over a net with a doubly switched in-service line and an    *)
(* open switch of another branch                                             *)
C3_Witness ==
    /\ op = "switch"
    /\ MultiSwitchLines(net) # {}
    /\ Len(ppc_bus) > NBus

(* the rows of the transformer ranges agree with a full rebuild *)
SameTrafoRows(rebuilt) ==
    /\ rebuilt.err = "none"
    /\ \A i \in (LineEnd(net) + 1)..Trafo3wEnd(net) : ppc_branch[i] = rebuilt.branch[i]

(* C4: the incremental update completes and leaves every row of the          *)
(* two-winding and three-winding ranges equal to the row a full rebuild of   *)
(* the same net with the same arguments produces.                            *)
C4_UpdateEqualsRebuild ==
    op = "update" => (err = "none" /\ SameTrafoRows(BuildBranchPpc(net, ppc_bus, args)))

(* C5: when constraint propagation is not requested every row of the built   *)
(* matrix keeps the default rating 250.                                      *)
C5_DefaultRatingKept ==
    (pc = "built" /\ ~args.copy_constraints_to_ppc) =>
        \A i \in DOMAIN ppc_branch : ppc_branch[i].RATE_A = VQ(RInt(250))

(* C6: a build with a transformer model other than "pi" or "t" fails, and    *)
(* fails before a branch matrix exists.                                      *)
C6_UnknownModelRejected ==
    (op = "build" /\ args.trafo_model \notin {"pi", "t"}) =>
        (pc = "failed" /\ ppc_branch = <<>>)

(* the open switches whose tag is neither line nor transformer *)
OtherOpenSwitches(n) ==
    {q \in DOMAIN n.switch : ~n.switch[q].closed /\ n.switch[q].et \notin {"l", "t"}}

(* the net without them *)
WithoutOtherSwitches(n) ==
    [n EXCEPT !.switch = SelectSeq(n.switch, LAMBDA sw : sw.closed \/ sw.et \in {"l", "t"})]

(* C7 as stated: with an open switch whose tag is neither line nor           *)
(* transformer in the table, the switch pass aborts.                         *)
C7_OtherSwitchAborts ==
    (op = "switch" /\ OtherOpenSwitches(net) # {}) => pc = "failed"

SwitchStepIs(r) ==
    /\ ppc_branch' = r.branch
    /\ ppc_bus' = r.bus
    /\ err' = r.err

(* C7: an open switch whose tag is neither line nor transformer is ignored:  *)
(* the switch pass ends as it ends on the net without these switches, with   *)
(* the same branch rows, the same bus rows and the same outcome.             *)
C7_OtherSwitchIgnored ==
    [][(pc = "built" /\ pc' # "built") =>
          SwitchStepIs(SwitchBranches(WithoutOtherSwitches(net), ppc_branch, ppc_bus))]_vars

(* a completed pass over a table with such a switch and a processed switch *)
C7_Witness ==
    /\ pc = "switched"
    /\ OtherOpenSwitches(net) # {}
    /\ Len(ppc_bus) > NBus

(* (vn_hv / vn_lv) / (base_kv_hv / base_kv_lv) with the unadjusted voltages *)
NeutralRatio(n, bus, tr) ==
    RDiv(RDiv(tr.vn_hv_kv, tr.vn_lv_kv),
         RDiv(bus[n.bus_lookup[tr.hv_bus] + 1].BASE_KV, bus[n.bus_lookup[tr.lv_bus] + 1].BASE_KV))

AtNeutral(tr) == IsFinite(tr.tp_pos) /\ tr.tp_pos = tr.tp_mid

TrafoRowsWritten == op \in {"build", "update"} /\ err = "none"

(* C8 as stated: for a transformer at its neutral tap position the tap ratio *)
(* is the ratio of the unadjusted voltages over the ratio of the base        *)
(* voltages and the phase shift is shift_degree, whatever the angle flag.    *)
C8_NeutralTapShiftAlways ==
    TrafoRowsWritten =>
        \A k \in DOMAIN net.trafo :
            AtNeutral(net.trafo[k]) =>
                /\ ppc_branch[Len(net.line) + k].TAP = NeutralRatio(net, ppc_bus, net.trafo[k])
                /\ ppc_branch[Len(net.line) + k].SHIFT = net.trafo[k].shift_degree

(* C8: for a transformer at its neutral tap position whose tap step percent  *)
(* is a number (or that has no tap side) the tap ratio is the ratio of the   *)
(* unadjusted voltages over the ratio of the base voltages; the phase shift  *)
(* is shift_degree when voltage angles are calculated and 0 when they are    *)
(* not.                                                                      *)
C8_NeutralTap ==
    TrafoRowsWritten =>
        \A k \in DOMAIN net.trafo :
            (/\ AtNeutral(net.trafo[k])
             /\ net.trafo[k].tp_side \in {"hv", "lv"} => IsFinite(net.trafo[k].tp_st_percent)) =>
                /\ ppc_branch[Len(net.line) + k].TAP = NeutralRatio(net, ppc_bus, net.trafo[k])
                /\ ppc_branch[Len(net.line) + k].SHIFT =
                       IF args.calculate_voltage_angles THEN net.trafo[k].shift_degree
                       ELSE RInt(0)

(* a transformer tapped on the hv side at neutral position 1, with a static  *)
(* shift, built without voltage angles                                       *)
C8_Witness ==
    /\ pc = "built"
    /\ ~args.calculate_voltage_angles
    /\ \E k \in DOMAIN net.trafo :
          /\ net.trafo[k].tp_side = "hv"
          /\ net.trafo[k].tp_pos = RInt(1)
          /\ net.trafo[k].tp_mid = RInt(1)
          /\ IsFinite(net.trafo[k].tp_st_percent)
          /\ net.trafo[k].shift_degree = RInt(150)
          /\ net.trafo[k].vn_hv_kv = RInt(115)

(* the leg of a three-winding transformer that carries the tap of a side *)
LegOfSide(side) == IF side = "hv" THEN 0 ELSE IF side = "mv" THEN 1 ELSE 2

(* the tap fields of one two-winding equivalent are those of the             *)
(* three-winding transformer (tapped) or null                                *)
LegTapFields(row, t3, tapped) ==
    IF tapped
    THEN /\ row.tp_pos = t3.tp_pos /\ row.tp_mid = t3.tp_mid
         /\ row.tp_st_percent = t3.tp_st_percent
         /\ row.tp_side \in {"hv", "lv"}
    ELSE /\ ~IsFinite(row.tp_pos) /\ ~IsFinite(row.tp_mid)
         /\ ~IsFinite(row.tp_st_percent)

(* C9: for every tap side hv, mv, lv or none the decomposition completes     *)
(* and yields three two-winding equivalents per transformer, of which only   *)
(* the leg of the tapped winding carries the tap fields.                     *)
C9_DecompositionCompletes ==
    (op = "build" /\ Len(net.trafo3w) > 0 /\ err # "ValueError") =>
        /\ err = "none"
        /\ Len(trafo3w_df) = 3 * Len(net.trafo3w)
        /\ \A r \in DOMAIN trafo3w_df :
              LET i == trafo3w_df[r].key % Len(net.trafo3w)
                  leg == trafo3w_df[r].key \div Len(net.trafo3w)
                  t3 == net.trafo3w[i + 1]
              IN  LegTapFields(trafo3w_df[r], t3,
                               t3.tp_side # "none" /\ LegOfSide(t3.tp_side) = leg)

(* r or x in per unit of the base impedance at a base voltage *)
XwardPerUnit(v, base_kv, sn_kva) ==
    VQ(RDiv(v, RMul(RDiv(RSquare(base_kv), sn_kva), RInt(1000))))

XwardRowUses(row, w, base_kv) ==
    /\ row.BR_R = XwardPerUnit(w.r_ohm, base_kv, net.sn_kva)
    /\ row.BR_X = XwardPerUnit(w.x_ohm, base_kv, net.sn_kva)

(* C10 as stated: the series r and x of every extended-ward row are divided  *)
(* by the base impedance at the base voltage of the row's to-bus.            *)
C10_XwardBaseAtToBus ==
    pc = "built" =>
        \A k \in DOMAIN net.xward :
            XwardRowUses(ppc_branch[ImpedanceEnd(net) + k], net.xward[k],
                         ppc_bus[ppc_branch[ImpedanceEnd(net) + k].T_BUS + 1].BASE_KV)

(* C10: the series r and x of every extended-ward row are divided by the     *)
(* base impedance at the base voltage of the row's from-bus, the bus the     *)
(* ward is connected to.                                                     *)
C10_XwardBaseAtFromBus ==
    pc = "built" =>
        \A k \in DOMAIN net.xward :
            XwardRowUses(ppc_branch[ImpedanceEnd(net) + k], net.xward[k],
                         ppc_bus[ppc_branch[ImpedanceEnd(net) + k].F_BUS + 1].BASE_KV)

(* a built extended-ward row whose two buses have different base voltages *)
C10_Witness ==
    /\ pc = "built"
    /\ Len(net.xward) >= 1
    /\ ppc_bus[ppc_branch[ImpedanceEnd(net) + 1].F_BUS + 1].BASE_KV
           # ppc_bus[ppc_branch[ImpedanceEnd(net) + 1].T_BUS + 1].BASE_KV

(* the open transformer switches of a transformer *)
OpenTrafoSwitches(n, label) ==
    {q \in DOMAIN n.switch :
        ~n.switch[q].closed /\ n.switch[q].et = "t" /\ n.switch[q].element = label}

(* the position of the line / transformer a switch belongs to *)
LinePosOf(n, q) == CHOOSE p \in DOMAIN n.line : n.line[p].index = n.switch[q].element
TrafoPosOf(n, q) == CHOOSE k \in DOMAIN n.trafo : n.trafo[k].index = n.switch[q].element

(* the bus row a branch row points to at its to-end or from-end *)
BusAtEnd(bus, row, at_to) == bus[(IF at_to THEN row.T_BUS ELSE row.F_BUS) + 1]

(* the estimates and the base voltage of the bus of a processed line switch *)
LineSwitchBusSeeded(n, bus, row, l, sw) ==
    LET at_to == sw.bus = l.to_bus
        aux == BusAtEnd(bus, row, at_to)
        other == bus[n.bus_lookup[IF at_to THEN l.from_bus ELSE l.to_bus] + 1]
    IN  /\ aux.VM = other.VM
        /\ aux.VA = other.VA
        /\ aux.BASE_KV = bus[n.bus_lookup[sw.bus] + 1].BASE_KV

(* C11: the bus created for a processed open line switch has the voltage     *)
(* magnitude and angle of the bus at the other end of the line and the base  *)
(* voltage of the bus the switch is attached to.                             *)
C11_LineSwitchBusFromOtherEnd ==
    pc = "switched" =>
        \A q \in ProcessedSwitches(net) :
            net.switch[q].et = "l" =>
                LineSwitchBusSeeded(net, ppc_bus, ppc_branch[LinePosOf(net, q)],
                                    net.line[LinePosOf(net, q)], net.switch[q])

(* the estimates of the bus of an open transformer switch *)
TrafoSwitchBusSeeded(n, bus, row, t, sw) ==
    LET at_lv == sw.bus = t.lv_bus
        aux == BusAtEnd(bus, row, at_lv)
        other == bus[n.bus_lookup[IF at_lv THEN t.hv_bus ELSE t.lv_bus] + 1]
    IN  /\ aux.VM = RMul(other.VM, row.TAP)
        /\ aux.VA = RAdd(other.VA, row.SHIFT)

(* C12: the bus created for an open transformer switch has the voltage       *)
(* magnitude of the bus on the other side of the transformer times the tap   *)
(* ratio of the transformer's row, and the angle of that bus plus the phase  *)
(* shift of the transformer's row.                                           *)
C12_TrafoSwitchBusFromOwnRow ==
    pc = "switched" =>
        \A q \in DOMAIN net.switch :
            (/\ ~net.switch[q].closed /\ net.switch[q].et = "t"
             /\ Cardinality(OpenTrafoSwitches(net, net.switch[q].element)) = 1) =>
                TrafoSwitchBusSeeded(net, ppc_bus,
                                     ppc_branch[Len(net.line) + TrafoPosOf(net, q)],
                                     net.trafo[TrafoPosOf(net, q)], net.switch[q])

(* a row after the pass is the row before it with one endpoint moved to a    *)
(* bus the pass appended                                                     *)
OnlyEndMoved(before, after, at_to, n_old, n_new) ==
    /\ IF at_to
       THEN after = [before EXCEPT !.T_BUS = after.T_BUS] /\ after.T_BUS >= n_old
            /\ after.T_BUS < n_new
       ELSE after = [before EXCEPT !.F_BUS = after.F_BUS] /\ after.F_BUS >= n_old
            /\ after.F_BUS < n_new

(* the branch rows of the elements that have no open switch *)
RowsWithoutSwitch(n) ==
    {p \in DOMAIN n.line : OpenLineSwitches(n, n.line[p].index) = {}}
    \cup {Len(n.line) + k : k \in {j \in DOMAIN n.trafo :
                                     OpenTrafoSwitches(n, n.trafo[j].index) = {}}}
    \cup (TrafoEnd(n) + 1)..XwardEnd(n)

(* C13: for an in-service line or transformer with exactly one open switch   *)
(* (a line switch at an in-service bus, the switches the pass processes) the *)
(* switch pass changes one field of its row, the endpoint at the switch,     *)
(* which then holds the index of a bus the pass appended; every other field  *)
(* of the row is unchanged and the rows of the elements without an open      *)
(* switch are unchanged.                                                     *)
C13_OnlyOneEndpointChanges ==
    [][(pc = "built" /\ pc' = "switched") =>
          /\ \A q \in DOMAIN net.switch :
                (/\ ~net.switch[q].closed /\ net.switch[q].et = "l"
                 /\ Cardinality(OpenLineSwitches(net, net.switch[q].element)) = 1
                 /\ net.line[LinePosOf(net, q)].in_service
                 /\ net.bus[net.switch[q].bus].in_service) =>
                    OnlyEndMoved(ppc_branch[LinePosOf(net, q)], ppc_branch'[LinePosOf(net, q)],
                                 net.switch[q].bus = net.line[LinePosOf(net, q)].to_bus,
                                 Len(ppc_bus), Len(ppc_bus'))
          /\ \A q \in DOMAIN net.switch :
                (/\ ~net.switch[q].closed /\ net.switch[q].et = "t"
                 /\ Cardinality(OpenTrafoSwitches(net, net.switch[q].element)) = 1
                 /\ net.trafo[TrafoPosOf(net, q)].in_service) =>
                    OnlyEndMoved(ppc_branch[Len(net.line) + TrafoPosOf(net, q)],
                                 ppc_branch'[Len(net.line) + TrafoPosOf(net, q)],
                                 net.switch[q].bus = net.trafo[TrafoPosOf(net, q)].lv_bus,
                                 Len(ppc_bus), Len(ppc_bus'))
          /\ \A i \in RowsWithoutSwitch(net) : ppc_branch'[i] = ppc_branch[i]]_vars

(* C17: when the switch pass disables a line with more than one open switch  *)
(* the status of every other branch row stays as it was.                     *)
C17_OnlyMultiSwitchLinesDisabled ==
    [][(pc = "built" /\ pc' # "built" /\ MultiSwitchLines(net) # {}) =>
          \A i \in DOMAIN ppc_branch \ MultiSwitchLines(net) :
              ppc_branch'[i].BR_STATUS = ppc_branch[i].BR_STATUS]_vars

(* what the two passes do to one end of an in-service or out-of-service line: *)
(* "switch" when a processed open switch sits there, "oos" when the line is   *)
(* in service and only this end is at an out-of-service bus, else "none"      *)
LineEndKind(n, p, at_to) ==
    LET l == n.line[p]
        b == IF at_to THEN l.to_bus ELSE l.from_bus
        o == IF at_to THEN l.from_bus ELSE l.to_bus
    IN  IF \E q \in ProcessedSwitches(n) :
              /\ n.switch[q].et = "l" /\ n.switch[q].element = l.index
              /\ n.switch[q].bus = b
        THEN "switch"
        ELSE IF l.in_service /\ ~n.bus[b].in_service /\ n.bus[o].in_service
        THEN "oos" ELSE "none"

ProcessedCount(n, et) == Cardinality({q \in ProcessedSwitches(n) : n.switch[q].et = et})

OosEndCount(n) ==
    Cardinality({p \in DOMAIN n.line : LineEndKind(n, p, TRUE) = "oos"
                                         \/ LineEndKind(n, p, FALSE) = "oos"})

(* an endpoint lies in the range of bus rows lo .. lo + len - 1 (0-based) *)
InBusRange(e, lo, len) == e >= lo /\ e < lo + len

(* an endpoint of a line row lies in the range its kind prescribes *)
LineEndInRange(n, e, kind, ext, n_bus, nlo, nto, noos) ==
    IF kind = "switch" THEN InBusRange(e, n_bus, nlo)
    ELSE IF kind = "oos" THEN InBusRange(e, n_bus + nlo + nto, noos)
    ELSE e = n.bus_lookup[ext]

BusRangesOrdered(n, branch, bus, n_bus, nlo, nto, noos) ==
    /\ Len(bus) = n_bus + nlo + nto + noos
    /\ \A i \in 1..n_bus : bus[i] = InitialBus(n)[i]
    /\ \A i \in DOMAIN bus : bus[i].BUS_I = i - 1
    /\ \A i \in DOMAIN branch : branch[i].F_BUS < Len(bus) /\ branch[i].T_BUS < Len(bus)
    /\ \A p \in DOMAIN n.line :
          /\ LineEndInRange(n, branch[p].F_BUS, LineEndKind(n, p, FALSE), n.line[p].from_bus,
                            n_bus, nlo, nto, noos)
          /\ LineEndInRange(n, branch[p].T_BUS, LineEndKind(n, p, TRUE), n.line[p].to_bus,
                            n_bus, nlo, nto, noos)
    /\ \A k \in DOMAIN n.trafo :
          /\ branch[Len(n.line) + k].F_BUS >= n_bus =>
                InBusRange(branch[Len(n.line) + k].F_BUS, n_bus + nlo, nto)
          /\ branch[Len(n.line) + k].T_BUS >= n_bus =>
                InBusRange(branch[Len(n.line) + k].T_BUS, n_bus + nlo, nto)
    /\ \A i \in (TrafoEnd(n) + 1)..Len(branch) :
          branch[i].F_BUS < n_bus /\ branch[i].T_BUS < n_bus

(* C16: after the switch pass and the out-of-service pass the original bus   *)
(* rows are unchanged, every bus row stores its own position as its index    *)
(* (so no index is used twice), the appended rows are the line-switch buses, *)
(* then the transformer-switch buses, then the out-of-service buses, each    *)
(* range referred to only by the endpoints rerouted for it, and every        *)
(* endpoint of a branch row is the position of an existing bus row.          *)
C16_BusRangesDisjoint ==
    pc = "done" =>
        BusRangesOrdered(net, ppc_branch, ppc_bus, NBus, ProcessedCount(net, "l"),
                         ProcessedCount(net, "t"), OosEndCount(net))

(* both passes done on a net with a processed line switch, an open           *)
(* transformer switch and a line with one end at an out-of-service bus       *)
C16_Witness ==
    /\ pc = "done"
    /\ ProcessedCount(net, "l") >= 1
    /\ ProcessedCount(net, "t") >= 1
    /\ OosEndCount(net) >= 1

(* the in-service lines with both ends at out-of-service buses (positions) *)
BothEndsOos(n) ==
    {p \in DOMAIN n.line :
        /\ n.line[p].in_service
        /\ ~n.bus[n.line[p].from_bus].in_service
        /\ ~n.bus[n.line[p].to_bus].in_service}

(* the in-service lines with exactly one end at an out-of-service bus *)
OneEndOos(n) ==
    {p \in DOMAIN n.line :
        /\ n.line[p].in_service
        /\ n.bus[n.line[p].from_bus].in_service # n.bus[n.line[p].to_bus].in_service}

(* C14: in the out-of-service pass, whatever the index labels of the lines,  *)
(* the row at the position of every in-service line with both ends out of    *)
(* service gets status 0, no bus is appended for it (the buses appended are  *)
(* those of the lines with one end out of service) and the status of no      *)
(* other row changes.                                                        *)
C14_BothEndsOosDisabled ==
    [][(pc = "switched" /\ pc' # "switched" /\ BothEndsOos(net) # {}) =>
          /\ pc' = "done"
          /\ \A p \in BothEndsOos(net) : ppc_branch'[p].BR_STATUS = 0
          /\ \A i \in DOMAIN ppc_branch \ BothEndsOos(net) :
                ppc_branch'[i].BR_STATUS = ppc_branch[i].BR_STATUS
          /\ Len(ppc_bus') = Len(ppc_bus) + Cardinality(OneEndOos(net))]_vars

(* the row of a line with one end out of service after the pass: that end    *)
(* points to an appended bus with the base voltage of the out-of-service bus *)
OosEndRerouted(n, before, after, l, bus_before, bus_after) ==
    LET at_to == ~n.bus[l.to_bus].in_service
        e == IF at_to THEN after.T_BUS ELSE after.F_BUS
        b == IF at_to THEN l.to_bus ELSE l.from_bus
    IN  /\ InBusRange(e, Len(bus_before), Len(bus_after) - Len(bus_before))
        /\ IF at_to THEN after.F_BUS = before.F_BUS ELSE after.T_BUS = before.T_BUS
        /\ bus_after[e + 1].BASE_KV = bus_before[n.bus_lookup[b] + 1].BASE_KV

(* C15: in the out-of-service pass every in-service line with exactly one    *)
(* end out of service gets one appended bus of its own, with the base        *)
(* voltage of its out-of-service end bus, and only that end of its row is    *)
(* rerouted to it; no endpoint of any other row changes.                     *)
C15_OneEndOosRerouted ==
    [][(pc = "switched" /\ pc' = "done") =>
          /\ Len(ppc_bus') = Len(ppc_bus) + Cardinality(OneEndOos(net))
          /\ \A p \in OneEndOos(net) :
                OosEndRerouted(net, ppc_branch[p], ppc_branch'[p], net.line[p],
                               ppc_bus, ppc_bus')
          /\ \A p, r \in OneEndOos(net) :
                (p # r) => <<ppc_branch'[p].F_BUS, ppc_branch'[p].T_BUS>>
                           # <<ppc_branch'[r].F_BUS, ppc_branch'[r].T_BUS>>
          /\ \A i \in DOMAIN ppc_branch \ OneEndOos(net) :
                /\ ppc_branch'[i].F_BUS = ppc_branch[i].F_BUS
                /\ ppc_branch'[i].T_BUS = ppc_branch[i].T_BUS]_vars

=============================================================================
